---- MODULE Spec2Model ----
(***************************************************************************)
(* Model of gsr.py: the graph-search loop search(), its dominance/pruning  *)
(* step expand(), the node store Node.__init__, the strategy table         *)
(* sort_options and the path reconstruction getpath()/finish().            *)
(*                                                                         *)
(* Nodes are kept in an arena `nodes` indexed by id (ids are 1..node_count *)
(* in creation order, as Node.__init__ assigns them); frontier, explored   *)
(* and the four lists returned by expand hold node ids.  A parent of 0 is  *)
(* Python's None parent.  verbose is an input: what is printed is not      *)
(* modelled, but what printing does to the run is - nodeinfo() adds g and  *)
(* h, printnodes() sorts the list it prints, and verbose >= 4 waits for a  *)
(* line of input in every iteration.  draw_edges is None in every run: the *)
(* drawing hook reads state[0], which the opaque states here do not have.  *)
(***************************************************************************)
EXTENDS Integers, Sequences, FiniteSets, TLC

VARIABLES
    s0,             \* search() argument: the initial state
    next_states,    \* search() argument: state -> sequence of <<successor, cost>>
    goals,          \* search() argument goal_test, as the set of states it accepts
    strategy,       \* search() argument: the strategy name
    h,              \* search() argument: the heuristic (state -> number) or HNone
    verbose,        \* search() argument: the verbosity level
    nodes,          \* every Node created so far; nodes[i] is the node with id i
    frontier,       \* search(): the frontier list (node ids, in list order)
    explored,       \* search(): the explored list (node ids, in list order)
    prunes,         \* search(): total number of pruned nodes
    iteration,      \* search(): number of loop iterations started
    x,              \* search(): the node popped in the current iteration (0: none yet)
    new,            \* last expand(): surviving new nodes
    n_prune,        \* last expand(): new nodes discarded
    f_prune,        \* last expand(): nodes pruned from the frontier
    e_prune,        \* last expand(): nodes pruned from explored
    pc,             \* "start" | "running" | "paused" | "succeeded" | "failed" | "error"
    err,            \* the exception that ended search(): "none" | "KeyError" | "TypeError"
    path            \* the list of states search() returned (<<>> while none is returned)

inputs == <<s0, next_states, goals, strategy, h, verbose>>
vars == <<s0, next_states, goals, strategy, h, verbose, nodes, frontier, explored, prunes,
          iteration, x, new, n_prune, f_prune, e_prune, pc, err, path>>

----------------------------------------------------------------------------
(* Bounds of the input domain and of the run.                              *)

MaxCost == 1        \* transition costs of the enumerated graphs are 0..MaxCost
MaxH == 1           \* heuristic values are 0..MaxH
MaxNodes == 7       \* no expansion is started that would create node MaxNodes + 1

(* The value of Node.h when search() is called without a heuristic, and    *)
(* the absent heuristic itself (h=None).                                   *)
None == -1
HNone == <<>>

----------------------------------------------------------------------------
(* Input graphs.                                                           *)

Pairs(S) == S \X (0..MaxCost)

(* successor lists of at most one entry, and of at most two entries        *)
(* (duplicates and both orders included)                                   *)
ShortLists(S) == {<<>>} \cup {<<p>> : p \in Pairs(S)}

SuccLists(S) == ShortLists(S) \cup {<<p, q>> : p \in Pairs(S), q \in Pairs(S)}

(* the graphs on the two states 1, 2 in which 1 lists at most two          *)
(* successors and 2 at most one (self-loops, cycles, parallel edges)       *)
TwoStateGraphs ==
    {[s \in 1..2 |-> IF s = 1 THEN l1 ELSE l2] :
        l1 \in SuccLists({1, 2}), l2 \in ShortLists({1, 2})}

(* three states: 1 branches to 2 and 3, 2 leads to 3, and 3 leads back to 1 *)
TriGraphs ==
    {[s \in 1..3 |-> CASE s = 1 -> << <<2, a>>, <<3, b>> >>
                       [] s = 2 -> << <<3, c>> >>
                       [] s = 3 -> << <<1, 0>> >>] :
        a \in 0..MaxCost, b \in 0..MaxCost, c \in 0..MaxCost}

(* one expansion that creates three nodes for the same state *)
TripleGraphs ==
    {[s \in 1..2 |-> IF s = 1 THEN << <<2, a>>, <<2, b>>, <<2, c>> >> ELSE << <<1, 0>> >>] :
        a \in 0..MaxCost, b \in 0..MaxCost, c \in 0..MaxCost}

(* the scenario graph A->B(1), A->C(4), B->D(1), C->D(1); A,B,C,D are 1,2,3,4 *)
Diamond ==
    [s \in 1..4 |-> CASE s = 1 -> << <<2, 1>>, <<3, 4>> >>
                      [] s = 2 -> << <<4, 1>> >>
                      [] s = 3 -> << <<4, 1>> >>
                      [] s = 4 -> << >>]

(* three states: 1 branches to 2 and, at no cost, to 3; 3 lists 2 twice;   *)
(* 2 is a dead end                                                         *)
FanGraphs ==
    {[s \in 1..3 |-> CASE s = 1 -> << <<2, a>>, <<3, 0>> >>
                       [] s = 2 -> << >>
                       [] s = 3 -> << <<2, c>>, <<2, d>> >>] :
        a \in 0..MaxCost, c \in 0..MaxCost, d \in 0..MaxCost}

Graphs == TwoStateGraphs \cup TriGraphs \cup TripleGraphs \cup FanGraphs \cup {Diamond}

Heuristics(S) == {HNone} \cup [S -> 0..MaxH]

(* the heuristics tried with a strategy whose key does not read h: none,   *)
(* and the zero heuristic                                                  *)
PlainHeuristics(S) == {HNone, [s \in S |-> 0]}

(* the goal sets tried: every set of states other than the initial state,  *)
(* and the initial state alone (search() returns in its first iteration    *)
(* when the initial state is a goal, whatever else is)                     *)
GoalSets(S, init) == SUBSET (S \ {init}) \cup {{init}}

(* the verbosity levels the module docstring lists *)
Verbosity == 0..4

Strategies == {"bf", "df", "uc", "gbf", "a*", "xx"}

----------------------------------------------------------------------------
(* sort_options: the strategies and their key functions.                   *)

sort_options == {"bf", "df", "uc", "gbf", "a*"}

(* mutants of key_func: 'uc' and 'a*' ordered by depth instead of g; and   *)
(* 'df' ordered by id ascending (the minus sign dropped)                   *)
key_func_hops(n) ==
    CASE strategy = "bf"  -> n.id
      [] strategy = "df"  -> 0 - n.id
      [] strategy = "uc"  -> n.depth
      [] strategy = "gbf" -> n.h
      [] strategy = "a*"  -> n.depth + n.h

key_func_dfasc(n) ==
    CASE strategy = "bf"  -> n.id
      [] strategy = "df"  -> n.id
      [] strategy = "uc"  -> n.g
      [] strategy = "gbf" -> n.h
      [] strategy = "a*"  -> n.g + n.h

(* mutant of key_func: 'bf' ordered by id descending *)
key_func_bflifo(n) ==
    CASE strategy = "bf"  -> 0 - n.id
      [] strategy = "df"  -> 0 - n.id
      [] strategy = "uc"  -> n.g
      [] strategy = "gbf" -> n.h
      [] strategy = "a*"  -> n.g + n.h

(* key_func of the strategy, applied to a node record.  For 'gbf' and 'a*' *)
(* on a node whose h is None the code compares or adds None; no run of the *)
(* model evaluates the key of such a node against another one.             *)
key_func(n) ==
    CASE strategy = "bf"  -> n.id
      [] strategy = "df"  -> 0 - n.id
      [] strategy = "uc"  -> n.g
      [] strategy = "gbf" -> n.h
      [] strategy = "a*"  -> n.g + n.h

----------------------------------------------------------------------------
(* Node.__init__ and getpath.                                              *)

node_count == Len(nodes)

(* mutant of Node: g is the cost of the last transition, not accumulated *)
Node_flat_g(id, state, parent, cost, h_value) ==
    [id     |-> id,
     state  |-> state,
     parent |-> parent,
     depth  |-> IF parent # 0 THEN nodes[parent].depth + 1 ELSE 0,
     g      |-> cost,
     h      |-> h_value]

(* Node(state, parent, cost, h_value) created as node number id *)
Node(id, state, parent, cost, h_value) ==
    [id     |-> id,
     state  |-> state,
     parent |-> parent,
     depth  |-> IF parent # 0 THEN nodes[parent].depth + 1 ELSE 0,
     g      |-> IF parent # 0 THEN nodes[parent].g + cost ELSE cost,
     h      |-> h_value]

(* Node.children: appended to by the __init__ of each child *)
children(store, i) == SelectSeq([k \in 1..Len(store) |-> k], LAMBDA k : store[k].parent = i)

RECURSIVE chain(_, _)
(* the list getpath builds before reversing it: y, y.parent, ... down to the root *)
chain(store, y) ==
    IF store[y].parent # 0 THEN <<y>> \o chain(store, store[y].parent) ELSE <<y>>

Reverse(seq) == [i \in 1..Len(seq) |-> seq[Len(seq) + 1 - i]]

(* mutant of getpath: the path is not reversed *)
getpath_unreversed(store, y) == chain(store, y)

getpath(store, y) == Reverse(chain(store, y))

(* finish(): the states of the nodes of getpath(x) *)
finish(store, y) == LET p == getpath(store, y) IN [i \in 1..Len(p) |-> store[p[i]].state]

----------------------------------------------------------------------------
(* expand().                                                               *)

Range(seq) == {seq[i] : i \in 1..Len(seq)}

(* key_func of the node with id i of the arena store *)
key(store, i) == key_func(store[i])

(* new = [Node(s, x, cost, h(s)) for (s,cost) in next_states(x.state)]:    *)
(* the records of the nodes one expansion of node y creates, in order       *)
created(y) ==
    LET succ == next_states[nodes[y].state]
    IN  [k \in 1..Len(succ) |->
            Node(node_count + k, succ[k][1], y, succ[k][2], h[succ[k][1]])]

(* mutants of new_dominated: new nodes are not compared with explored; and *)
(* of new nodes with equal key the one created last is kept                *)
new_dominated_noexplored(store, m, cr, fr, ex) ==
    \/ \E n \in Range(fr) : store[m].state = store[n].state /\ key(store, m) >= key(store, n)
    \/ \E n \in Range(cr) : store[m].state = store[n].state /\ key(store, m) > key(store, n)
    \/ \E n \in Range(cr) : /\ store[m].state = store[n].state
                            /\ key(store, m) = key(store, n)
                            /\ store[m].id > store[n].id

new_dominated_keeplast(store, m, cr, fr, ex) ==
    \/ \E n \in Range(ex) : store[m].state = store[n].state /\ key(store, m) >= key(store, n)
    \/ \E n \in Range(fr) : store[m].state = store[n].state /\ key(store, m) >= key(store, n)
    \/ \E n \in Range(cr) : store[m].state = store[n].state /\ key(store, m) > key(store, n)
    \/ \E n \in Range(cr) : /\ store[m].state = store[n].state
                            /\ key(store, m) = key(store, n)
                            /\ store[m].id < store[n].id

(* mutant of new_dominated: a tie with a frontier or explored node does    *)
(* not discard the new node                                                *)
new_dominated_strictold(store, m, cr, fr, ex) ==
    \/ \E n \in Range(ex) : store[m].state = store[n].state /\ key(store, m) > key(store, n)
    \/ \E n \in Range(fr) : store[m].state = store[n].state /\ key(store, m) > key(store, n)
    \/ \E n \in Range(cr) : store[m].state = store[n].state /\ key(store, m) > key(store, n)
    \/ \E n \in Range(cr) : /\ store[m].state = store[n].state
                            /\ key(store, m) = key(store, n)
                            /\ store[m].id > store[n].id

(* the condition of the n_prune comprehension: new node m is dominated by  *)
(* an explored node, a frontier node, or another new node                  *)
new_dominated(store, m, cr, fr, ex) ==
    \/ \E n \in Range(ex) : store[m].state = store[n].state /\ key(store, m) >= key(store, n)
    \/ \E n \in Range(fr) : store[m].state = store[n].state /\ key(store, m) >= key(store, n)
    \/ \E n \in Range(cr) : store[m].state = store[n].state /\ key(store, m) > key(store, n)
    \/ \E n \in Range(cr) : /\ store[m].state = store[n].state
                            /\ key(store, m) = key(store, n)
                            /\ store[m].id > store[n].id

(* mutant of old_dominated: the comparison is inverted *)
old_dominated_inverted(store, m, nw) ==
    \E n \in Range(nw) : store[m].state = store[n].state /\ key(store, m) < key(store, n)

(* the condition of the f_prune and e_prune comprehensions: frontier or    *)
(* explored node m is dominated by a surviving new node                    *)
old_dominated(store, m, nw) ==
    \E n \in Range(nw) : store[m].state = store[n].state /\ key(store, m) > key(store, n)

(* mutant of sort: the list is left in the order it has *)
sort_none(store, seq) == seq

(* list.sort(key=key_func): a stable ascending sort *)
sort(store, seq) ==
    LET rank(i) == Cardinality({j \in 1..Len(seq) :
                        \/ key(store, seq[j]) < key(store, seq[i])
                        \/ key(store, seq[j]) = key(store, seq[i]) /\ j < i})
    IN  [p \in 1..Len(seq) |-> seq[CHOOSE i \in 1..Len(seq) : rank(i) = p - 1]]

(* printnodes(message, nodes, ...): it sorts the list it is given in place *)
(* before printing it                                                      *)
printnodes(store, seq) == sort(store, seq)

(* print_nodetypes, called by expand when verbose >= 2, passes each of the *)
(* lists new, n_prune, e_prune, f_prune to printnodes (a list that is      *)
(* skipped is empty); the frontier it prints last is sorted already        *)
print_nodetypes(store, seq) == IF verbose >= 2 THEN printnodes(store, seq) ELSE seq

(* expand(x, ...) called with frontier fr and explored ex: the arena after *)
(* the call and the six lists it returns                                   *)
expand(y, fr, ex) ==
    LET recs  == created(y)
        store == nodes \o recs
        cr    == [k \in 1..Len(recs) |-> node_count + k]
        np    == SelectSeq(cr, LAMBDA m : new_dominated(store, m, cr, fr, ex))
        nw    == SelectSeq(cr, LAMBDA m : m \notin Range(np))
        fp    == SelectSeq(fr, LAMBDA m : old_dominated(store, m, nw))
        fr2   == SelectSeq(fr, LAMBDA m : m \notin Range(fp))
        ep    == SelectSeq(ex, LAMBDA m : old_dominated(store, m, nw))
        ex2   == SelectSeq(ex, LAMBDA m : m \notin Range(ep))
    IN  [nodes |-> store,
         new |-> print_nodetypes(store, nw),
         n_prune |-> print_nodetypes(store, np),
         frontier |-> sort(store, fr2 \o nw),
         f_prune |-> print_nodetypes(store, fp),
         explored |-> ex2,
         e_prune |-> print_nodetypes(store, ep)]

----------------------------------------------------------------------------
(* search().                                                               *)

goal_test(s) == s \in goals

Init ==
    /\ next_states \in Graphs
    /\ s0 = 1
    /\ goals \in GoalSets(DOMAIN next_states, 1)
    /\ strategy \in Strategies
    /\ h \in IF strategy \in {"gbf", "a*"} THEN Heuristics(DOMAIN next_states)
                                          ELSE PlainHeuristics(DOMAIN next_states)
    /\ verbose \in Verbosity
    /\ nodes = <<>>
    /\ frontier = <<>>
    /\ explored = <<>>
    /\ prunes = 0
    /\ iteration = 0
    /\ x = 0
    /\ new = <<>>
    /\ n_prune = <<>>
    /\ f_prune = <<>>
    /\ e_prune = <<>>
    /\ pc = "start"
    /\ err = "none"
    /\ path = <<>>

(* nodeinfo(y, template) evaluates y.g + y.h: TypeError when y.h is None.  *)
(* search() calls it on the popped node when verbose >= 2.                 *)
nodeinfo_raises(y) == verbose >= 2 /\ nodes[y].h = None

(* mutant of Start: the root node is created before the strategy lookup *)
Start_rootfirst ==
    /\ pc = "start"
    /\ nodes' = <<Node(1, s0, 0, 0, IF h # HNone THEN h[s0] ELSE None)>>
    /\ IF strategy \notin sort_options
       THEN /\ pc' = "error"
            /\ err' = "KeyError"
            /\ UNCHANGED frontier
       ELSE /\ frontier' = <<1>>
            /\ pc' = "running"
            /\ UNCHANGED err
    /\ UNCHANGED <<inputs, explored, prunes, iteration, x, new, n_prune, f_prune,
                   e_prune, path>>

(* search() up to the loop: the strategy lookup, then the root node *)
Start ==
    /\ pc = "start"
    /\ IF strategy \notin sort_options
       THEN /\ pc' = "error"
            /\ err' = "KeyError"
            /\ UNCHANGED <<nodes, frontier>>
       ELSE /\ nodes' = <<Node(1, s0, 0, 0, IF h # HNone THEN h[s0] ELSE None)>>
            /\ frontier' = <<1>>
            /\ pc' = "running"
            /\ UNCHANGED err
    /\ UNCHANGED <<inputs, explored, prunes, iteration, x, new, n_prune, f_prune,
                   e_prune, path>>

(* a loop iteration whose 'Expand' line cannot be printed: nodeinfo(x)     *)
(* raises TypeError after x is popped and appended, before goal_test       *)
NodeinfoError ==
    /\ pc = "running"
    /\ frontier # <<>>
    /\ nodeinfo_raises(Head(frontier))
    /\ iteration' = iteration + 1
    /\ x' = Head(frontier)
    /\ frontier' = Tail(frontier)
    /\ explored' = Append(explored, Head(frontier))
    /\ pc' = "error"
    /\ err' = "TypeError"
    /\ UNCHANGED <<inputs, nodes, prunes, new, n_prune, f_prune, e_prune, path>>

(* a loop iteration whose popped node passes goal_test: return finish(x, ...) *)
Succeed ==
    /\ pc = "running"
    /\ frontier # <<>>
    /\ ~nodeinfo_raises(Head(frontier))
    /\ goal_test(nodes[Head(frontier)].state)
    /\ iteration' = iteration + 1
    /\ x' = Head(frontier)
    /\ frontier' = Tail(frontier)
    /\ explored' = Append(explored, Head(frontier))
    /\ path' = finish(nodes, Head(frontier))
    /\ pc' = "succeeded"
    /\ UNCHANGED <<inputs, nodes, prunes, new, n_prune, f_prune, e_prune, err>>

(* mutant of Expand: the popped node is appended to explored but also     *)
(* left in the frontier                                                    *)
Expand_nopop ==
    /\ pc = "running"
    /\ frontier # <<>>
    /\ ~nodeinfo_raises(Head(frontier))
    /\ ~goal_test(nodes[Head(frontier)].state)
    /\ ~(h = HNone /\ next_states[nodes[Head(frontier)].state] # <<>>)
    /\ node_count + Len(next_states[nodes[Head(frontier)].state]) <= MaxNodes
    /\ LET r == expand(Head(frontier), frontier, Append(explored, Head(frontier)))
       IN  /\ nodes' = r.nodes
           /\ new' = r.new
           /\ n_prune' = r.n_prune
           /\ frontier' = r.frontier
           /\ f_prune' = r.f_prune
           /\ explored' = r.explored
           /\ e_prune' = r.e_prune
           /\ prunes' = IF verbose >= 4 THEN prunes
                        ELSE prunes + Len(r.n_prune) + Len(r.f_prune) + Len(r.e_prune)
    /\ iteration' = iteration + 1
    /\ x' = Head(frontier)
    /\ pc' = IF verbose >= 4 THEN "paused" ELSE "running"
    /\ UNCHANGED <<inputs, err, path>>

(* mutant of Expand: the nodes removed from explored are not added to the  *)
(* prune count                                                             *)
Expand_miscount ==
    /\ pc = "running"
    /\ frontier # <<>>
    /\ ~nodeinfo_raises(Head(frontier))
    /\ ~goal_test(nodes[Head(frontier)].state)
    /\ ~(h = HNone /\ next_states[nodes[Head(frontier)].state] # <<>>)
    /\ node_count + Len(next_states[nodes[Head(frontier)].state]) <= MaxNodes
    /\ LET r == expand(Head(frontier), Tail(frontier), Append(explored, Head(frontier)))
       IN  /\ nodes' = r.nodes
           /\ new' = r.new
           /\ n_prune' = r.n_prune
           /\ frontier' = r.frontier
           /\ f_prune' = r.f_prune
           /\ explored' = r.explored
           /\ e_prune' = r.e_prune
           /\ prunes' = IF verbose >= 4 THEN prunes
                        ELSE prunes + Len(r.n_prune) + Len(r.f_prune)
    /\ iteration' = iteration + 1
    /\ x' = Head(frontier)
    /\ pc' = IF verbose >= 4 THEN "paused" ELSE "running"
    /\ UNCHANGED <<inputs, err, path>>

(* a loop iteration whose popped node fails goal_test and is expanded; with *)
(* verbose >= 4 the iteration stops after expand() to wait for a line      *)
Expand ==
    /\ pc = "running"
    /\ frontier # <<>>
    /\ ~nodeinfo_raises(Head(frontier))
    /\ ~goal_test(nodes[Head(frontier)].state)
    /\ ~(h = HNone /\ next_states[nodes[Head(frontier)].state] # <<>>)
    /\ node_count + Len(next_states[nodes[Head(frontier)].state]) <= MaxNodes
    /\ LET r == expand(Head(frontier), Tail(frontier), Append(explored, Head(frontier)))
       IN  /\ nodes' = r.nodes
           /\ new' = r.new
           /\ n_prune' = r.n_prune
           /\ frontier' = r.frontier
           /\ f_prune' = r.f_prune
           /\ explored' = r.explored
           /\ e_prune' = r.e_prune
           /\ prunes' = IF verbose >= 4 THEN prunes
                        ELSE prunes + Len(r.n_prune) + Len(r.f_prune) + Len(r.e_prune)
    /\ iteration' = iteration + 1
    /\ x' = Head(frontier)
    /\ pc' = IF verbose >= 4 THEN "paused" ELSE "running"
    /\ UNCHANGED <<inputs, err, path>>

(* a loop iteration whose expansion calls h(s) with h = None: the call     *)
(* raises TypeError before the first child node is created                 *)
ExpandError ==
    /\ pc = "running"
    /\ frontier # <<>>
    /\ ~nodeinfo_raises(Head(frontier))
    /\ ~goal_test(nodes[Head(frontier)].state)
    /\ h = HNone
    /\ next_states[nodes[Head(frontier)].state] # <<>>
    /\ iteration' = iteration + 1
    /\ x' = Head(frontier)
    /\ frontier' = Tail(frontier)
    /\ explored' = Append(explored, Head(frontier))
    /\ pc' = "error"
    /\ err' = "TypeError"
    /\ UNCHANGED <<inputs, nodes, prunes, new, n_prune, f_prune, e_prune, path>>

(* verbose >= 4: the line search() waits for after expand() has arrived;   *)
(* the prune counts of the expansion are added and the loop goes on        *)
Continue ==
    /\ pc = "paused"
    /\ prunes' = prunes + Len(n_prune) + Len(f_prune) + Len(e_prune)
    /\ pc' = "running"
    /\ UNCHANGED <<inputs, nodes, frontier, explored, iteration, x, new, n_prune,
                   f_prune, e_prune, err, path>>

(* the loop ends with an empty frontier: return False *)
Fail ==
    /\ pc = "running"
    /\ frontier = <<>>
    /\ pc' = "failed"
    /\ UNCHANGED <<inputs, nodes, frontier, explored, prunes, iteration, x, new,
                   n_prune, f_prune, e_prune, err, path>>

Next == Start \/ NodeinfoError \/ Succeed \/ Expand \/ ExpandError \/ Continue \/ Fail

Spec == Init /\ [][Next]_vars

(* search() is a sequential loop: a step that can be taken is taken; the   *)
(* line a paused iteration waits for arrives (a line or end-of-file)       *)
FairSpec == Spec /\ WF_vars(Next)

TypeOK ==
    /\ pc \in {"start", "running", "paused", "succeeded", "failed", "error"}
    /\ verbose \in Verbosity
    /\ err \in {"none", "KeyError", "TypeError"}
    /\ Range(frontier) \cup Range(explored) \subseteq 1..node_count

----------------------------------------------------------------------------
(* The graph the search runs on: reachability and cheapest path costs.     *)

States == DOMAIN next_states

Succs(s) == {next_states[s][k][1] : k \in 1..Len(next_states[s])}

RECURSIVE Closure(_)
Closure(S) ==
    LET T == S \cup UNION {Succs(s) : s \in S} IN IF T = S THEN S ELSE Closure(T)

(* the states reachable from s0 through next_states *)
Reachable == Closure({s0})

GoalReachable == Reachable \cap goals # {}

Infinity == 100 * (MaxCost + 4)

Min(S) == CHOOSE a \in S : \A b \in S : a <= b

RECURSIVE Dist(_, _)
(* Dist(src, k)[s]: the cost of a cheapest walk of at most k edges from src to s *)
Dist(src, k) ==
    IF k = 0 THEN [s \in States |-> IF s = src THEN 0 ELSE Infinity]
    ELSE LET d == Dist(src, k - 1)
         IN  [s \in States |->
                Min({d[s]} \cup UNION {
                        {d[u] + next_states[u][j][2] :
                            j \in {i \in 1..Len(next_states[u]) : next_states[u][i][1] = s}} :
                        u \in {v \in States : d[v] < Infinity}})]

(* the cost of a cheapest path from src to s; Infinity when there is none  *)
(* (costs are non-negative, so a cheapest walk has fewer edges than states) *)
MinCost(src, s) == Dist(src, Cardinality(States))[s]

(* the cost of a cheapest path from src to a goal state *)
MinGoalCost(src) == Min({Infinity} \cup {MinCost(src, s) : s \in goals})

(* h never overestimates the cost of reaching a goal *)
Admissible == \A s \in States : h[s] <= MinGoalCost(s)

(* h obeys the triangle inequality along every edge *)
Consistent ==
    \A s \in States : \A k \in 1..Len(next_states[s]) :
        h[s] <= next_states[s][k][2] + h[next_states[s][k][1]]

Done == pc \in {"succeeded", "failed", "error"}


(* the nodes currently held in frontier or explored *)
Live == Range(frontier) \cup Range(explored)

(* the nodes the last expansion created *)
LastCreated == Range(new) \cup Range(n_prune)

HasHeuristic == h # HNone

ValidStrategy == strategy \in sort_options

----------------------------------------------------------------------------
(* Termination.  What an iteration of the loop does is a function of the   *)
(* inputs and of the configuration of the two lists: for each node of      *)
(* frontier and explored, in list order, its state, g and h, and the rank  *)
(* of its id among the ids held (the 'bf' and 'df' keys compare ids, and   *)
(* every new id exceeds every id held; the other keys are built from g and *)
(* h).  The ids themselves, depth and parent do not enter goal_test or any *)
(* comparison of expand.  So a run in which an iteration ends in the       *)
(* configuration it began in repeats that iteration for ever.              *)

Configuration(store, fr, ex) ==
    LET held    == Range(fr) \cup Range(ex)
        rank(i) == Cardinality({j \in held : j < i})
        view(i) == <<store[i].state, store[i].g, store[i].h, rank(i)>>
    IN  <<[p \in 1..Len(fr) |-> view(fr[p])], [p \in 1..Len(ex) |-> view(ex[p])]>>

(* a loop iteration that leaves the lists in the configuration it found *)
IterationRepeats ==
    /\ pc = "running" /\ pc' = "running"
    /\ iteration' = iteration + 1
    /\ Configuration(nodes', frontier', explored') = Configuration(nodes, frontier, explored)

(* C1: for each of the five strategies, on a finite graph with non-negative *)
(* costs and a reachable goal, search() terminates in the SUCCEEDED state:  *)
(* a run started with a valid strategy and a heuristic reaches SUCCEEDED    *)
(* and, as it must to get there, has no iteration that ends in the          *)
(* configuration it began in.  Refuted by depth-first on a graph with a     *)
(* cycle: every new node has a smaller key (-id) than any older node, so    *)
(* the node of an expanded state is evicted from explored and the state     *)
(* re-enters the frontier; the second iteration repeats for ever.           *)
C1_TerminatesWithPath ==
    /\ (pc = "start" /\ ValidStrategy /\ HasHeuristic /\ GoalReachable) ~> (pc = "succeeded")
    /\ [][(ValidStrategy /\ HasHeuristic /\ GoalReachable) => ~IterationRepeats]_vars

(* the failing input of C1: 1 lists the goal 2 and then itself *)
C1_Input ==
    /\ next_states = << << <<2, 0>>, <<1, 0>> >>, << >> >>
    /\ goals = {2}
    /\ strategy = "df"
    /\ h = <<0, 0>>

(* On that input every iteration leaves a fresh node of state 1 at the     *)
(* head of the frontier and the goal node behind it: the loop of the code  *)
(* never ends, whatever the number of nodes created.                       *)
C1_DfLoopsOnInput ==
    (C1_Input /\ pc = "running") =>
        /\ frontier # <<>>
        /\ nodes[Head(frontier)].state = 1
        /\ nodes[Head(frontier)].id = node_count

----------------------------------------------------------------------------
(* The returned path, read off the parent chain of the goal node x.        *)

(* the ids of the nodes from the root to x *)
PathNodes == getpath(nodes, x)

(* <<t, c>> is an entry of next_states(s) *)
IsEdge(s, t, c) == \E k \in 1..Len(next_states[s]) : next_states[s][k] = <<t, c>>

OptimalStrategy == strategy = "uc" \/ (strategy = "a*" /\ HasHeuristic /\ Admissible /\ Consistent)

DiamondRun(strat) ==
    /\ next_states = Diamond
    /\ goals = {4}
    /\ strategy = strat
    /\ HasHeuristic

(* C2: uniform-cost, and a* with an admissible and consistent heuristic,   *)
(* return a path whose cost - the g of the goal node - is the least cost   *)
(* of any path from s0 to a goal state; on the diamond graph uniform-cost  *)
(* returns [A,B,D] with cost 2.                                            *)
C2_OptimalCost ==
    /\ (pc = "succeeded" /\ OptimalStrategy) =>
            /\ nodes[x].g = MinGoalCost(s0)
            /\ \E t \in goals : nodes[x].state = t /\ nodes[x].g = MinCost(s0, t)
    /\ (pc = "succeeded" /\ DiamondRun("uc")) => (path = <<1, 2, 4>> /\ nodes[x].g = 2)

C2_Witness ==
    /\ pc = "succeeded"
    /\ strategy = "a*"
    /\ HasHeuristic /\ Admissible /\ Consistent
    /\ \E s \in States : h[s] > 0
    /\ Len(path) = 3
    /\ node_count > Len(path)

(* C3: a returned path is non-empty, starts at s0 and ends in a state that *)
(* satisfies goal_test; when s0 is itself a goal the result is [s0].       *)
C3_PathEnds ==
    pc = "succeeded" =>
        /\ path # <<>>
        /\ path[1] = s0
        /\ goal_test(path[Len(path)])
        /\ (goal_test(s0) => path = <<s0>>)

C3_Witness == pc = "succeeded" /\ Len(path) >= 3 /\ path[Len(path)] # s0 /\ prunes > 0

(* C4: every consecutive pair of a returned path is an edge produced by    *)
(* next_states, the g of the goal node is the sum of the costs of the      *)
(* edges along the path and its depth is the number of edges - also when   *)
(* nodes of the parent chain have been pruned from frontier or explored.   *)
C4_PathIsValid ==
    pc = "succeeded" =>
        LET p == PathNodes
        IN  /\ path = [i \in 1..Len(p) |-> nodes[p[i]].state]
            /\ nodes[p[1]].g = 0
            /\ \A i \in 1..(Len(p) - 1) :
                   IsEdge(path[i], path[i + 1], nodes[p[i + 1]].g - nodes[p[i]].g)
            /\ nodes[x].depth = Len(path) - 1

(* a path is returned through an ancestor that was pruned from explored *)
C4_Witness ==
    /\ pc = "succeeded"
    /\ Len(path) >= 2
    /\ nodes[x].g > 0
    /\ \E i \in 1..Len(PathNodes) : PathNodes[i] \notin Range(explored)

(* C5: for each of the five strategies, on a finite graph in which no goal *)
(* is reachable, search() terminates with the failure value, without an    *)
(* infinite loop: a run started with a valid strategy and a heuristic      *)
(* reaches FAILED and has no iteration that ends in the configuration it   *)
(* began in.  Refuted by depth-first on a graph with a cycle, as C1: the   *)
(* first iteration repeats for ever.                                       *)
C5_TerminatesWithFailure ==
    /\ (pc = "start" /\ ValidStrategy /\ HasHeuristic /\ ~GoalReachable) ~> (pc = "failed")
    /\ [][(ValidStrategy /\ HasHeuristic /\ ~GoalReachable) => ~IterationRepeats]_vars


(* the failing input of C5: 1 lists only itself; no goal *)
C5_Input ==
    /\ next_states = << << <<1, 0>> >>, << >> >>
    /\ goals = {}
    /\ strategy = "df"
    /\ h = <<0, 0>>

(* On that input every iteration leaves exactly one fresh node of state 1  *)
(* in the frontier: the frontier never becomes empty.                      *)
C5_DfLoopsOnInput ==
    (C5_Input /\ pc = "running") =>
        /\ Len(frontier) = 1
        /\ nodes[Head(frontier)].state = 1
        /\ nodes[Head(frontier)].id = node_count

(* the states of the nodes in explored *)
ExploredStates == {nodes[i].state : i \in Range(explored)}

(* C6: when search() ends in failure, explored holds exactly one node for  *)
(* each state reachable from s0, and no other node.                        *)
C6_FailureExploresComponent ==
    pc = "failed" =>
        /\ ExploredStates = Reachable
        /\ Len(explored) = Cardinality(Reachable)

C6_Witness ==
    /\ pc = "failed"
    /\ Cardinality(Reachable) >= 3
    /\ prunes > 0
    /\ strategy = "uc"

(* C7: at the top of every loop iteration frontier and explored together   *)
(* hold at most one node per state, and that node has the smallest key of  *)
(* all nodes generated for that state; under uniform-cost a node with a    *)
(* larger g is never held together with a node of smaller g for its state. *)
C7_OneBestNodePerState ==
    pc = "running" =>
        /\ \A i \in Live : \A j \in Live : nodes[i].state = nodes[j].state => i = j
        /\ \A i \in Live : \A j \in (1..node_count) \ {i} :
               nodes[i].state = nodes[j].state => key_func(nodes[i]) <= key_func(nodes[j])

(* under uniform-cost a costlier node for a state was generated and is gone *)
C7_Witness ==
    /\ pc = "running"
    /\ strategy = "uc"
    /\ f_prune # <<>>
    /\ \E i \in Live : \E j \in (1..node_count) \ Live :
           nodes[i].state = nodes[j].state /\ nodes[j].g > nodes[i].g

(* C8 as claimed: depth-first on the diamond graph, B listed before C,     *)
(* returns [A,B,D].                                                        *)
C8_DiamondDfReturnsABD ==
    (pc = "succeeded" /\ DiamondRun("df")) => path = <<1, 2, 4>>

(* C8 amended: depth-first on the diamond graph, B listed before C,        *)
(* returns [A,C,D]: C, the successor created last, is expanded first and D *)
(* is found as C's child while B is still in the frontier, never expanded. *)
C8_DiamondDfReturnsACD ==
    (pc = "succeeded" /\ DiamondRun("df")) =>
        /\ path = <<1, 3, 4>>
        /\ 2 \notin ExploredStates
        /\ \E i \in Range(frontier) : nodes[i].state = 2

C8_Witness == pc = "succeeded" /\ DiamondRun("df") /\ nodes[x].g = 5


(* the nodes the last expansion created for the state of m with the key of m *)
Twins(m) ==
    {n \in LastCreated : nodes[n].state = nodes[m].state
                            /\ key_func(nodes[n]) = key_func(nodes[m])}

(* C9 as claimed: of the new nodes one expansion creates for the same      *)
(* state with equal key, exactly one survives, the one with the lowest id. *)
C9_ExactlyLowestTwinSurvives ==
    \A m \in LastCreated :
        Cardinality(Twins(m)) >= 2 =>
            /\ Cardinality(Twins(m) \cap Range(new)) = 1
            /\ Min(Twins(m)) \in Range(new)

(* C9 amended: of the new nodes one expansion creates for the same state   *)
(* with equal key, every one but the lowest id is discarded into n_prune,  *)
(* and the lowest id is added to the frontier unless frontier or explored  *)
(* hold another node for that state whose key is not larger: then none of  *)
(* them survives.                                                          *)
C9_OnlyLowestTwinMaySurvive ==
    \A m \in LastCreated :
        Cardinality(Twins(m)) >= 2 =>
            LET low == Min(Twins(m))
            IN  /\ \A n \in Twins(m) \ {low} : n \in Range(n_prune) /\ n \notin Live
                /\ \/ low \in Range(new) /\ low \in Live
                   \/ /\ low \in Range(n_prune)
                      /\ \E n \in Live : /\ nodes[n].state = nodes[low].state
                                         /\ key_func(nodes[n]) <= key_func(nodes[low])

(* twins of which the lowest id survived *)
C9_Witness ==
    \E m \in LastCreated :
        /\ Cardinality(Twins(m)) >= 2
        /\ m = Min(Twins(m))
        /\ m \in Range(frontier)
        /\ n_prune # <<>>

(* C10: best-first, depth-first and uniform-cost search called without a   *)
(* heuristic run every expansion without error.  Refuted: expand calls     *)
(* h(s) for every successor whatever the strategy, and h is None; and with *)
(* verbose >= 2 nodeinfo adds g and the root's h, which is None.           *)
C10_NoHeuristicNoError ==
    (strategy \in {"bf", "df", "uc"} /\ ~HasHeuristic) => err = "none"


(* C11: greedy-best-first and a* called without a heuristic fail at start  *)
(* and so return neither a path nor the failure value, even when s0 is a   *)
(* goal or has no successors.  Refuted: search() does not check h; the     *)
(* root is built with h None and, with verbose < 2, the loop runs until    *)
(* expand calls h(s).                                                      *)
C11_MissingHeuristicNeverReturns ==
    (strategy \in {"gbf", "a*"} /\ ~HasHeuristic) => pc \notin {"succeeded", "failed"}

(* C12: with a strategy name that is not one of the five, search() fails   *)
(* before the root node is created and before next_states, goal_test or    *)
(* the heuristic is called, and returns neither a path nor the failure     *)
(* value.                                                                  *)
C12_InvalidStrategyFailsFirst ==
    ~ValidStrategy =>
        /\ pc \in {"start", "error"}
        /\ pc = "error" => err = "KeyError"
        /\ nodes = <<>>
        /\ frontier = <<>> /\ explored = <<>>
        /\ iteration = 0 /\ x = 0
        /\ path = <<>>

C12_Witness == ~ValidStrategy /\ pc = "error" /\ err = "KeyError" /\ GoalReachable


(* node i is ordered before node j: smaller key, or equal key and smaller id *)
Before(i, j) ==
    \/ key_func(nodes[i]) < key_func(nodes[j])
    \/ key_func(nodes[i]) = key_func(nodes[j]) /\ i < j

(* C13: at the top of every loop iteration the frontier is sorted          *)
(* ascending by the key of the strategy, nodes of equal key in ascending   *)
(* id order; so the node popped next has the smallest key of the frontier  *)
(* and, of those, the smallest id.                                         *)
C13_FrontierSorted ==
    pc = "running" =>
        /\ \A p \in 1..Len(frontier) : \A q \in 1..Len(frontier) :
               p < q => Before(frontier[p], frontier[q])
        /\ \A q \in 2..Len(frontier) : Before(Head(frontier), frontier[q])

(* the sort moved a node created later in front of an older one *)
C13_Witness ==
    /\ pc = "running"
    /\ strategy \in {"uc", "a*"}
    /\ \E p \in 1..Len(frontier) : \E q \in 1..Len(frontier) :
           p < q /\ frontier[p] > frontier[q]

----------------------------------------------------------------------------
(* One expansion, as a step: the lists expand() is called with and the     *)
(* nodes it creates.                                                       *)

(* the step is a loop iteration that expands the popped node *)
ExpandStep ==
    pc = "running" /\ pc' \in {"running", "paused"} /\ iteration' = iteration + 1

(* the frontier and explored lists passed to expand(): x popped and appended *)
OldFrontier == Range(Tail(frontier))
OldExplored == Range(Append(explored, Head(frontier)))

(* the ids of the nodes the step creates *)
CreatedNow == (Len(nodes) + 1)..Len(nodes')

SameState(store, i, j) == store[i].state = store[j].state

(* C14 as claimed: a new node whose key equals the key of a frontier or    *)
(* explored node of its state is discarded and that node is kept in place; *)
(* a frontier or explored node is removed only if a surviving new node of  *)
(* its state has a strictly smaller key.                                   *)
C14_TieKeepsOldNode ==
    [][ExpandStep =>
        /\ \A m \in CreatedNow : \A n \in OldFrontier \cup OldExplored :
              (SameState(nodes', m, n) /\ key(nodes', m) = key(nodes', n)) =>
                  /\ m \in Range(n_prune')
                  /\ n \in OldFrontier => n \in Range(frontier')
                  /\ n \in OldExplored => n \in Range(explored')
        /\ \A n \in (OldFrontier \cup OldExplored) \ (Range(frontier') \cup Range(explored')) :
              \E m \in Range(new') : SameState(nodes', m, n) /\ key(nodes', m) < key(nodes', n)
      ]_vars

(* C14 amended: a new node whose key equals the key of a frontier or       *)
(* explored node of its state is discarded; a frontier or explored node is *)
(* removed only if a surviving new node of its state has a strictly        *)
(* smaller key, and otherwise stays in its list - so the tied node is kept *)
(* unless another new node of that expansion beats it strictly.            *)
C14_TieDiscardsNewNode ==
    [][ExpandStep =>
        /\ \A m \in CreatedNow : \A n \in OldFrontier \cup OldExplored :
              (SameState(nodes', m, n) /\ key(nodes', m) = key(nodes', n)) =>
                  /\ m \in Range(n_prune')
                  /\ m \notin Range(frontier')
        /\ \A n \in OldFrontier :
              \/ n \in Range(frontier')
              \/ /\ n \in Range(f_prune')
                 /\ \E m \in Range(new') :
                        SameState(nodes', m, n) /\ key(nodes', m) < key(nodes', n)
        /\ \A n \in OldExplored :
              \/ n \in Range(explored')
              \/ /\ n \in Range(e_prune')
                 /\ \E m \in Range(new') :
                        SameState(nodes', m, n) /\ key(nodes', m) < key(nodes', n)
      ]_vars

(* the last expansion discarded a new node that tied with an older node,   *)
(* which is still held                                                     *)
C14_Witness ==
    \E m \in Range(n_prune) : \E n \in Live \ LastCreated :
        /\ nodes[m].state = nodes[n].state
        /\ key_func(nodes[m]) = key_func(nodes[n])
        /\ strategy = "uc"
        /\ nodes[n].g > 0

(* C15 as claimed: in an expansion a frontier node n is removed into      *)
(* f_prune exactly when some surviving new node m of the same state has    *)
(* key(m) > key(n).                                                        *)
C15_EvictsWhenNewKeyGreater ==
    [][ExpandStep =>
        \A n \in OldFrontier :
            (n \in Range(f_prune') /\ n \notin Range(frontier'))
                <=> \E m \in Range(new') :
                        SameState(nodes', m, n) /\ key(nodes', m) > key(nodes', n)
      ]_vars

(* C15 amended: in an expansion a frontier node n is removed into f_prune  *)
(* exactly when some surviving new node m of the same state has            *)
(* key(m) < key(n); every other frontier node stays in the frontier.       *)
C15_EvictsWhenNewKeySmaller ==
    [][ExpandStep =>
        \A n \in OldFrontier :
            /\ (n \in Range(f_prune') /\ n \notin Range(frontier'))
                  <=> \E m \in Range(new') :
                          SameState(nodes', m, n) /\ key(nodes', m) < key(nodes', n)
            /\ n \in Range(f_prune') \/ n \in Range(frontier')
      ]_vars

(* the last expansion evicted a frontier node in favour of a new node of   *)
(* the same state that is now in the frontier                              *)
C15_Witness ==
    /\ pc = "running"
    /\ \E n \in Range(f_prune) : \E m \in Range(new) \cap Range(frontier) :
           /\ nodes[m].state = nodes[n].state
           /\ key_func(nodes[m]) < key_func(nodes[n])
           /\ n \notin Range(frontier)

(* new node m of the step is strictly better than explored node e *)
Betters(m, e) == SameState(nodes', m, e) /\ key(nodes', m) < key(nodes', e)

(* the last expansion re-opened the state of surviving new node m: m is    *)
(* strictly better than a node of its state that the expansion removed     *)
(* from explored                                                           *)
ReopenedBy(m) ==
    /\ pc = "running"
    /\ m \in Range(new)
    /\ \E e \in Range(e_prune) :
           nodes[m].state = nodes[e].state /\ key_func(nodes[m]) < key_func(nodes[e])

(* the node being expanded is m or a later node for m's state *)
ExpandedAgain(m) ==
    /\ pc = "running"
    /\ m <= Len(nodes)
    /\ x >= m
    /\ nodes[x].state = nodes[m].state

C16_SiblingDiscarded ==
    /\ pc = "running"
    /\ \E e \in Range(e_prune) : \E m \in Range(n_prune) :
           /\ nodes[m].state = nodes[e].state
           /\ key_func(nodes[m]) < key_func(nodes[e])

(* C17: frontier and explored are disjoint in every reachable state; a     *)
(* node that is not in the frontier - popped into explored, or pruned -    *)
(* never appears in the frontier again; a node in explored stays there, in *)
(* place, or is removed by pruning; a node in neither list is never        *)
(* inserted into either.                                                   *)
C17_ExploredNeverReturnsToFrontier ==
    /\ [](Range(frontier) \cap Range(explored) = {})
    /\ [][\A i \in 1..Len(nodes) :
             /\ i \notin Range(frontier) => i \notin Range(frontier')
             /\ i \in Range(explored) =>
                   \/ i \in Range(explored')
                   \/ i \in Range(e_prune') /\ i \notin Range(frontier')
             /\ i \notin Live => i \notin Range(frontier') \cup Range(explored')
         ]_vars

(* an expansion has just removed a node from explored while other nodes    *)
(* are held in explored and in the frontier                                *)
C17_Witness ==
    /\ pc = "running"
    /\ e_prune # <<>>
    /\ explored # <<>>
    /\ frontier # <<>>
    /\ strategy = "a*"

NoDuplicates(seq) == \A p \in 1..Len(seq) : \A q \in 1..Len(seq) : seq[p] = seq[q] => p = q

(* the generated nodes that are in neither list *)
Pruned == (1..node_count) \ Live

(* C18: at the top of every loop iteration and when a solution or failure  *)
(* is returned, node_count = len(frontier) + len(explored) + prunes; every *)
(* generated node is in exactly one of frontier, explored and the pruned   *)
(* nodes, and prunes counts each pruned node once.                         *)
C18_NodeAccounting ==
    pc \in {"running", "succeeded", "failed"} =>
        /\ node_count = Len(frontier) + Len(explored) + prunes
        /\ NoDuplicates(frontier) /\ NoDuplicates(explored)
        /\ Range(frontier) \cap Range(explored) = {}
        /\ Live \subseteq 1..node_count
        /\ prunes = Cardinality(Pruned)
        /\ NoDuplicates(n_prune \o f_prune \o e_prune)
        /\ Range(n_prune \o f_prune \o e_prune) \subseteq Pruned

(* the top of a loop iteration after an expansion that discarded a new     *)
(* node and removed a node from explored, with a node left in the frontier *)
C18_Witness ==
    /\ pc = "running"
    /\ prunes >= 2
    /\ frontier # <<>>
    /\ n_prune # <<>>
    /\ e_prune # <<>>

RECURSIVE Within(_)
(* the states reachable from s0 by at most k edges *)
Within(k) ==
    IF k = 0 THEN {s0}
    ELSE LET W == Within(k - 1) IN W \cup UNION {Succs(s) : s \in W}

(* the fewest edges of any path from s0 to a goal state *)
MinHops == Min({k \in 0..Cardinality(States) : Within(k) \cap goals # {}})

(* C19: under 'bf' nodes are expanded in non-decreasing depth order, a new *)
(* node for a state already in frontier or explored is always discarded    *)
(* and f_prune and e_prune are always empty, and a returned path has the   *)
(* fewest edges of any path from s0 to a goal state.                       *)
C19_BestFirstIsBreadthFirst ==
    (strategy = "bf" /\ pc \in {"running", "succeeded", "failed"}) =>
        /\ f_prune = <<>> /\ e_prune = <<>>
        /\ \A p \in 1..Len(explored) : \A q \in 1..Len(explored) :
               p < q => nodes[explored[p]].depth <= nodes[explored[q]].depth
        /\ \A p \in 1..Len(explored) : \A q \in 1..Len(frontier) :
               nodes[explored[p]].depth <= nodes[frontier[q]].depth
        /\ \A m \in LastCreated :
               (\E n \in Live \ LastCreated : nodes[n].state = nodes[m].state)
                   => m \in Range(n_prune)
        /\ pc = "succeeded" => Len(path) - 1 = MinHops
        /\ pc = "failed" => ~GoalReachable

(* 'bf' returns a path of two or more edges after discarding new nodes for *)
(* states it already held                                                  *)
C19_Witness ==
    /\ strategy = "bf"
    /\ pc = "succeeded"
    /\ Len(path) >= 3
    /\ prunes > 0

====
